---------------------------- MODULE Spec2Model ----------------------------
(***************************************************************************)
(* A model of the LinkedIn job scraper: main.py (seed URL construction,    *)
(* crawler run, CSV export) and routes.py (default_handler, the discovery  *)
(* stage, and listing_handler, the extraction stage).                      *)
(*                                                                         *)
(* Strings are sequences of one-character strings, so that urlencode and   *)
(* re.sub are computed character by character as the library computes     *)
(* them.  The crawlee runtime (request queue, dispatch by label, retry of  *)
(* a failed request, dataset, export) is the environment of the two        *)
(* handlers; it is modelled by the crawler actions below.                  *)
(***************************************************************************)
EXTENDS Integers, Sequences, FiniteSets, Bags, TLC

VARIABLES
    title,          \* main's argument title
    location,       \* main's argument location
    data_name,      \* main's argument data_name
    encoded_url,    \* main's local encoded_url (None until built)
    mainPc,         \* position of main: "build", "run", "export", "done"
    anchors,        \* the results page: hrefs of the anchors the list selector matches
    pages,          \* the job-detail pages, by href
    dedup,          \* whether the request queue drops a URL it already holds
    requests,       \* every request the crawler's queue has accepted, in order
    invocations,    \* by request, the handler invocation last started for it, with its locals
    dataset,        \* the crawler's result sink: the records pushed, in order
    files           \* the files written by export_data, in order

vars == <<title, location, data_name, encoded_url, mainPc, anchors, pages,
          dedup, requests, invocations, dataset, files>>

-----------------------------------------------------------------------------
(* Bounds of the model.                                                    *)

MaxLen == 2         \* longest title / location drawn for the seed URL
MaxRaw == 3         \* longest raw text drawn for a scraped element
MaxAnchors == 2     \* most anchors on the results page
MaxRetries == 1     \* retries the crawler grants a failed request

-----------------------------------------------------------------------------
(* Strings.                                                                *)

None == <<"None">>

\* All sequences over alphabet A of length at most n.
StrUpTo(A, n) == UNION {[1..k -> A] : k \in 0..n}

RECURSIVE Join(_, _)
\* sep.join(parts)
Join(parts, sep) ==
    IF parts = <<>> THEN <<>>
    ELSE IF Len(parts) = 1 THEN parts[1]
    ELSE parts[1] \o sep \o Join(Tail(parts), sep)

IsPrefix(p, s) == Len(p) <= Len(s) /\ SubSeq(s, 1, Len(p)) = p

-----------------------------------------------------------------------------
(* urllib.parse.urlencode, as main uses it: every key and value goes       *)
(* through quote_plus with no extra safe characters.                       *)

AlwaysSafe ==
    {"a","b","c","d","e","f","g","h","i","j","k","l","m","n","o","p","q","r",
     "s","t","u","v","w","x","y","z","A","B","C","D","E","F","G","H","I","J",
     "K","L","M","N","O","P","Q","R","S","T","U","V","W","X","Y","Z","0","1",
     "2","3","4","5","6","7","8","9","_",".","-","~"}

\* The ASCII codes of the reserved characters the model draws.
Ord == [c \in {" ", "#", "%", "&", "+", "/", "=", "?"} |->
          CASE c = " " -> 32 [] c = "#" -> 35 [] c = "%" -> 37 [] c = "&" -> 38
            [] c = "+" -> 43 [] c = "/" -> 47 [] c = "=" -> 61 [] c = "?" -> 63]

HexDigits == <<"0","1","2","3","4","5","6","7","8","9","A","B","C","D","E","F">>

\* '%XX' for a byte.
PercentByte(n) == <<"%", HexDigits[(n \div 16) + 1], HexDigits[(n % 16) + 1]>>

\* quote_plus with '+' passed as a safe character.
quote_char_plus_safe(c) ==
    IF c \in AlwaysSafe \/ c = "+" THEN <<c>>
    ELSE IF c = " " THEN <<"+">>
    ELSE PercentByte(Ord[c])

\* quote_plus on one character: safe characters stay, a space becomes '+',
\* anything else becomes its percent escape.
quote_char(c) ==
    IF c \in AlwaysSafe THEN <<c>>
    ELSE IF c = " " THEN <<"+">>
    ELSE PercentByte(Ord[c])

RECURSIVE quote_plus(_)
quote_plus(s) ==
    IF s = <<>> THEN <<>> ELSE quote_char(Head(s)) \o quote_plus(Tail(s))

\* urlencode(params) for an ordered mapping given as a sequence of <<k, v>>.
urlencode(params) ==
    Join([i \in 1..Len(params) |->
            quote_plus(params[i][1]) \o <<"=">> \o quote_plus(params[i][2])],
         <<"&">>)

\* urljoin(base, url) for the only call main makes, url = "": the base.
urljoin(base, url) == IF url = <<>> THEN base ELSE url

base_url ==
    <<"h","t","t","p","s",":","/","/","w","w","w",".","l","i","n","k","e","d",
      "i","n",".","c","o","m","/","j","o","b","s","/","s","e","a","r","c","h">>

K_keywords == <<"k","e","y","w","o","r","d","s">>
K_location == <<"l","o","c","a","t","i","o","n">>
K_trk == <<"t","r","k">>
V_trk ==
    <<"p","u","b","l","i","c","_","j","o","b","s","_","j","o","b","s","-","s",
      "e","a","r","c","h","-","b","a","r","_","s","e","a","r","c","h","-","s",
      "u","b","m","i","t">>
K_position == <<"p","o","s","i","t","i","o","n">>
K_pageNum == <<"p","a","g","e","N","u","m">>

\* main's params dict, in insertion order.
params(t, l) ==
    << <<K_keywords, t>>, <<K_location, l>>, <<K_trk, V_trk>>,
       <<K_position, <<"1">> >>, <<K_pageNum, <<"0">> >> >>

\* main's encoded_url.
SeedUrl(t, l) == urljoin(base_url, <<>>) \o (<<"?">> \o urlencode(params(t, l)))

-----------------------------------------------------------------------------
(* re.sub(r'[\s\n]+', '', text), as listing_handler uses it.               *)

Whitespace == {" ", "\t", "\n", "\r"}

RECURSIVE MatchLen(_, _)
\* Length of the greedy match of [\s\n]+ at position i of s (0: no match).
MatchLen(s, i) ==
    IF i <= Len(s) /\ s[i] \in Whitespace THEN 1 + MatchLen(s, i + 1) ELSE 0

RECURSIVE ReSub(_, _, _)
\* re.sub of the pattern by repl in s, scanning from position i.
ReSub(repl, s, i) ==
    IF i > Len(s) THEN <<>>
    ELSE LET m == MatchLen(s, i) IN
         IF m > 0 THEN repl \o ReSub(repl, s, i + m)
         ELSE <<s[i]>> \o ReSub(repl, s, i + 1)

\* The pattern replaced by one space instead of by nothing.
re_sub_space(text) == ReSub(<<" ">>, text, 1)

re_sub(text) == ReSub(<<>>, text, 1)

-----------------------------------------------------------------------------
(* The pages the crawler loads.                                            *)

U1 == <<"j","1">>
U2 == <<"j","2">>
Hrefs == {U1, U2}

\* The URL a detail request ends on: U1 is redirected, U2 is not.
Redirected(u) == IF u = U1 THEN u \o <<"r">> ELSE u

\* A job-detail page: whether its load event may be late, the text of each of
\* the three located elements (None: the locator resolves to no element), and
\* the URL the navigation ended on.
Page(slow, t, c, p, u) ==
    [slow |-> slow, job_title |-> t, company_name |-> c, time_of_posting |-> p,
     loaded_url |-> u]

TitleA == <<"S", "\n", " ", "E">>
CompanyA == <<"\n", "A", "c", " ">>
TimeA == <<"3", " ", "d">>
TitleB == <<"D", "\t", "S">>
CompanyB == <<"B", " ", "b", "\n">>
TimeB == <<"1", "\n", "w">>

\* The detail pages the crawl specification draws for href u: for U1 a
\* complete page, the same with a late load event, without its title element,
\* or with a blank title; for U2 a complete page, or one without its company
\* or its posting-time element.
PageKinds(u) ==
    LET r == Redirected(u) IN
    IF u = U1
    THEN { Page(FALSE, TitleA, CompanyA, TimeA, r),
           Page(TRUE, TitleA, CompanyA, TimeA, r),
           Page(FALSE, None, CompanyA, TimeA, r),
           Page(FALSE, <<" ", "\n">>, CompanyA, TimeA, r) }
    ELSE { Page(FALSE, TitleB, CompanyB, TimeB, r),
           Page(FALSE, TitleB, None, TimeB, r),
           Page(FALSE, TitleB, CompanyB, None, r) }

\* The page a request for url shows to the detail locators: a detail page, or
\* the results page, which has none of the three elements.
PageOf(url) ==
    IF url \in DOMAIN pages THEN pages[url]
    ELSE Page(FALSE, None, None, None, url)

\* Only the first matching anchor is evaluated.
evaluate_first(url) ==
    IF url = encoded_url /\ anchors # <<>> THEN <<anchors[1]>> ELSE <<>>

\* The hrefs the results-list selector matches on the page of url.
evaluate_all(url) == IF url = encoded_url THEN anchors ELSE <<>>

\* A locator that resolves to no element yields the empty text instead of
\* raising.
text_content_or_empty(page, field) ==
    IF page[field] = None THEN <<>> ELSE page[field]

\* locator.text_content(): the element's text, or None when the locator
\* resolves to no element (the call then raises after its timeout).
text_content(page, field) == page[field]

-----------------------------------------------------------------------------
(* Requests and the crawler's queue.                                       *)

NoLabel == "None"

\* Request.from_url(rec) with the label left out.
Request_from_url_unlabelled(url, label) == [url |-> url, label |-> NoLabel]

\* Request.from_url(url, label=label)
Request_from_url(url, label) == [url |-> url, label |-> label]

RECURSIVE FirstOccurrences(_)
\* The hrefs with repeated ones dropped, as list(dict.fromkeys(hrefs)) would.
FirstOccurrences(hrefs) ==
    IF hrefs = <<>> THEN <<>>
    ELSE LET init == FirstOccurrences(SubSeq(hrefs, 1, Len(hrefs) - 1))
             last == hrefs[Len(hrefs)]
         IN IF \E i \in 1..Len(init) : init[i] = last THEN init
            ELSE Append(init, last)

\* One request per distinct href only.
requests_for_distinct(hrefs) ==
    LET d == FirstOccurrences(hrefs) IN
    [i \in 1..Len(d) |-> Request_from_url(d[i], "job_listing")]

\* [Request.from_url(rec, label='job_listing') for rec in hrefs]
requests_for(hrefs) ==
    [i \in 1..Len(hrefs) |-> Request_from_url(hrefs[i], "job_listing")]

\* A request as the queue holds it.
Queued(r) == [url |-> r.url, label |-> r.label, state |-> "pending", retry_count |-> 0]

RECURSIVE AddRequests(_, _)
\* The queue q after add_requests(new): each request is appended, unless the
\* queue deduplicates and already holds its URL.
AddRequests(q, new) ==
    IF new = <<>> THEN q
    ELSE LET r == Head(new) IN
         AddRequests(IF dedup /\ \E i \in 1..Len(q) : q[i].url = r.url
                     THEN q ELSE Append(q, Queued(r)),
                     Tail(new))

\* The two decorators exchanged: the labelled route gets default_handler.
router_swapped(label) ==
    IF label = "job_listing" THEN "default_handler" ELSE "listing_handler"

\* The router: the handler registered for the label, else the default handler.
router(label) ==
    IF label = "job_listing" THEN "listing_handler" ELSE "default_handler"

\* The crawler returns from run() without waiting for its requests.
CrawlerReturnsEarly == TRUE

\* crawler.run() returns when no request is pending or being handled.
CrawlerIdle ==
    \A i \in 1..Len(requests) : requests[i].state \in {"handled", "failed"}

-----------------------------------------------------------------------------
(* Handler invocations.                                                    *)

ListingSteps ==
    <<"wait_for_load_state", "job_title", "company_name", "time_of_posting",
      "push_data">>

\* The statement after pc in listing_handler.
StepAfter(pc) ==
    LET i == CHOOSE j \in 1..Len(ListingSteps) : ListingSteps[j] = pc
    IN ListingSteps[i + 1]

NewInvocation(i, handler) ==
    [req |-> i, handler |-> handler,
     pc |-> IF handler = "default_handler" THEN "evaluate_all"
            ELSE "wait_for_load_state",
     hrefs |-> <<>>, added |-> <<>>,
     job_title |-> None, company_name |-> None, time_of_posting |-> None,
     tries |-> [s \in {"wait_for_load_state", "job_title", "company_name",
                       "time_of_posting"} |-> 0],
     pushed |-> <<>>]

\* The statement is attempted again after it raised.
RetriedLocally(pc) == pc

\* Where an invocation goes when the statement at pc raises: nothing catches
\* the exception, the handler ends in failure.
PcOnRaise(pc) == "failed"

Tried(inv) == [inv EXCEPT !.tries[inv.pc] = @ + 1]

\* context.request.url in place of context.request.loaded_url.
request_url(req) == req.url

\* context.request.loaded_url
loaded_url(req) == PageOf(req.url).loaded_url

\* The dict listing_handler passes to push_data, as its items in order.
JobRecord(inv, req) ==
    << <<"title", re_sub(inv.job_title)>>,
       <<"Company name", re_sub(inv.company_name)>>,
       <<"Time of posting", re_sub(inv.time_of_posting)>>,
       <<"url", loaded_url(req)>> >>

\* The crawler takes back a request whose handler raised: it is queued again
\* while it has retries left, and marked failed otherwise.
Reclaimed(req) ==
    IF req.retry_count < MaxRetries
    THEN [req EXCEPT !.state = "pending", !.retry_count = @ + 1]
    ELSE [req EXCEPT !.state = "failed"]

\* The statement at invocation k's pc raises.
Raise(k) ==
    LET inv == invocations[k] IN
    /\ invocations' = [invocations EXCEPT ![k] =
                          [Tried(inv) EXCEPT !.pc = PcOnRaise(inv.pc)]]
    /\ requests' = IF PcOnRaise(inv.pc) = "failed"
                   THEN [requests EXCEPT ![inv.req] = Reclaimed(@)]
                   ELSE requests

-----------------------------------------------------------------------------
(* main                                                                    *)

\* main, lines 8-25: build the seed URL.
BuildUrl ==
    /\ mainPc = "build"
    /\ encoded_url' = SeedUrl(title, location)
    /\ mainPc' = "run"
    /\ UNCHANGED <<title, location, data_name, anchors, pages, dedup, requests,
                   invocations, dataset, files>>

\* main, lines 29-37: create the crawler and start run([encoded_url]).
StartRun ==
    /\ mainPc = "run"
    /\ requests' = AddRequests(requests, <<Request_from_url(encoded_url, NoLabel)>>)
    /\ mainPc' = "crawling"
    /\ UNCHANGED <<title, location, data_name, encoded_url, anchors, pages,
                   dedup, invocations, dataset, files>>

\* The crawler takes a pending request and calls the handler the router
\* gives for its label.
Dispatch(i) ==
    /\ mainPc = "crawling"
    /\ requests[i].state = "pending"
    /\ requests' = [requests EXCEPT ![i].state = "running"]
    /\ invocations' = (i :> NewInvocation(i, router(requests[i].label))) @@ invocations
    /\ UNCHANGED <<title, location, data_name, encoded_url, mainPc, anchors,
                   pages, dedup, dataset, files>>

\* default_handler, line 19: hrefs = await ...evaluate_all(...)
DefaultEvaluateAll(k) ==
    LET inv == invocations[k] IN
    /\ inv.handler = "default_handler"
    /\ inv.pc = "evaluate_all"
    /\ invocations' = [invocations EXCEPT ![k] =
           [inv EXCEPT !.hrefs = evaluate_all(requests[inv.req].url),
                       !.pc = "add_requests"]]
    /\ UNCHANGED <<title, location, data_name, encoded_url, mainPc, anchors,
                   pages, dedup, requests, dataset, files>>

\* default_handler, lines 22-26: await context.add_requests([...]); return.
DefaultAddRequests(k) ==
    LET inv == invocations[k]
        new == requests_for(inv.hrefs)
    IN
    /\ inv.handler = "default_handler"
    /\ inv.pc = "add_requests"
    /\ invocations' = [invocations EXCEPT ![k] =
           [inv EXCEPT !.added = new, !.pc = "done"]]
    /\ requests' = AddRequests([requests EXCEPT ![inv.req].state = "handled"], new)
    /\ UNCHANGED <<title, location, data_name, encoded_url, mainPc, anchors,
                   pages, dedup, dataset, files>>

\* listing_handler, line 35: the load state is reached.
ListingWaitForLoadState(k) ==
    LET inv == invocations[k] IN
    /\ inv.handler = "listing_handler"
    /\ inv.pc = "wait_for_load_state"
    /\ invocations' = [invocations EXCEPT ![k] =
           [Tried(inv) EXCEPT !.pc = StepAfter(inv.pc)]]
    /\ UNCHANGED <<title, location, data_name, encoded_url, mainPc, anchors,
                   pages, dedup, requests, dataset, files>>

\* listing_handler, line 35: the wait times out and raises.
ListingWaitTimesOut(k) ==
    LET inv == invocations[k] IN
    /\ inv.handler = "listing_handler"
    /\ inv.pc = "wait_for_load_state"
    /\ PageOf(requests[inv.req].url).slow
    /\ Raise(k)
    /\ UNCHANGED <<title, location, data_name, encoded_url, mainPc, anchors,
                   pages, dedup, dataset, files>>

\* listing_handler, lines 39-43: one locator's text_content() returns.
ListingTextContent(k) ==
    LET inv == invocations[k]
        text == text_content(PageOf(requests[inv.req].url), inv.pc)
    IN
    /\ inv.handler = "listing_handler"
    /\ inv.pc \in {"job_title", "company_name", "time_of_posting"}
    /\ text # None
    /\ invocations' = [invocations EXCEPT ![k] =
           [Tried(inv) EXCEPT ![inv.pc] = text, !.pc = StepAfter(inv.pc)]]
    /\ UNCHANGED <<title, location, data_name, encoded_url, mainPc, anchors,
                   pages, dedup, requests, dataset, files>>

\* listing_handler, lines 39-43: one locator resolves to no element and its
\* text_content() raises.
ListingTextContentRaises(k) ==
    LET inv == invocations[k] IN
    /\ inv.handler = "listing_handler"
    /\ inv.pc \in {"job_title", "company_name", "time_of_posting"}
    /\ text_content(PageOf(requests[inv.req].url), inv.pc) = None
    /\ Raise(k)
    /\ UNCHANGED <<title, location, data_name, encoded_url, mainPc, anchors,
                   pages, dedup, dataset, files>>

\* listing_handler, lines 48-56: await context.push_data({...}); return.
ListingPushData(k) ==
    LET inv == invocations[k]
        rec == JobRecord(inv, requests[inv.req])
    IN
    /\ inv.handler = "listing_handler"
    /\ inv.pc = "push_data"
    /\ dataset' = Append(dataset, rec)
    /\ invocations' = [invocations EXCEPT ![k] =
           [inv EXCEPT !.pushed = Append(@, rec), !.pc = "done"]]
    /\ requests' = [requests EXCEPT ![inv.req].state = "handled"]
    /\ UNCHANGED <<title, location, data_name, encoded_url, mainPc, anchors,
                   pages, dedup, files>>

\* main, line 34: await crawler.run(...) returns.
FinishRun ==
    /\ mainPc = "crawling"
    /\ CrawlerIdle
    /\ mainPc' = "export"
    /\ UNCHANGED <<title, location, data_name, encoded_url, anchors, pages,
                   dedup, requests, invocations, dataset, files>>

\* The CSV file export_data writes: the first item's keys as the header, then
\* each item's values as a row.
CsvFile(name, items) ==
    [name |-> name,
     header |-> IF items = <<>> THEN <<>>
                ELSE [j \in 1..Len(items[1]) |-> items[1][j][1]],
     rows |-> [i \in 1..Len(items) |->
                 [j \in 1..Len(items[i]) |-> items[i][j][2]]]]

\* main, lines 40-41: await crawler.export_data(f"{data_name}.csv")
Export ==
    /\ mainPc = "export"
    /\ files' = Append(files, CsvFile(data_name \o <<".", "c", "s", "v">>, dataset))
    /\ mainPc' = "done"
    /\ UNCHANGED <<title, location, data_name, encoded_url, anchors, pages,
                   dedup, requests, invocations, dataset>>

-----------------------------------------------------------------------------
(* Specifications.                                                         *)

\* The state when main is entered, its arguments and the web pages apart.
Fresh ==
    /\ encoded_url = None
    /\ mainPc = "build"
    /\ requests = <<>>
    /\ invocations = <<>>
    /\ dataset = <<>>
    /\ files = <<>>

\* Every assignment of a page of kinds[u] to each href u.
PagesOver(kinds) ==
    {[u \in Hrefs |-> IF u = U1 THEN p1 ELSE p2] : p1 \in kinds[U1], p2 \in kinds[U2]}

\* The crawl: one search, every results page of at most MaxAnchors anchors,
\* every choice of detail pages.
Init ==
    /\ title = <<"q", "a">>
    /\ location = <<"n", " ", "y">>
    /\ data_name = <<"o", "u", "t">>
    /\ anchors \in StrUpTo(Hrefs, MaxAnchors)
    /\ pages \in PagesOver([u \in Hrefs |-> PageKinds(u)])
    /\ dedup \in BOOLEAN
    /\ Fresh

Next ==
    \/ BuildUrl
    \/ StartRun
    \/ \E i \in 1..Len(requests) : Dispatch(i)
    \/ \E k \in DOMAIN invocations : DefaultEvaluateAll(k)
    \/ \E k \in DOMAIN invocations : DefaultAddRequests(k)
    \/ \E k \in DOMAIN invocations : ListingWaitForLoadState(k)
    \/ \E k \in DOMAIN invocations : ListingWaitTimesOut(k)
    \/ \E k \in DOMAIN invocations : ListingTextContent(k)
    \/ \E k \in DOMAIN invocations : ListingTextContentRaises(k)
    \/ \E k \in DOMAIN invocations : ListingPushData(k)
    \/ FinishRun
    \/ Export

Spec == Init /\ [][Next]_vars

\* The crawler keeps scheduling: a step that can be taken is eventually taken.
FairSpec == Spec /\ WF_vars(Next)

-----------------------------------------------------------------------------
(* The seed URL alone: every title and location over an alphabet holding a *)
(* safe character, a digit and the reserved characters of a query string.  *)

MaxLocLen == 1      \* longest location drawn for the seed URL

UrlAlphabet == {"a", "2", " ", "&", "=", "+", "%"}

InitUrl ==
    /\ title \in StrUpTo(UrlAlphabet, MaxLen)
    /\ location \in StrUpTo(UrlAlphabet, MaxLocLen)
    /\ data_name = <<"o", "u", "t">>
    /\ anchors = <<>>
    /\ pages \in PagesOver([u \in Hrefs |-> {Page(FALSE, TitleA, CompanyA, TimeA, Redirected(u))}])
    /\ dedup = FALSE
    /\ Fresh

NextUrl == BuildUrl

SpecUrl == InitUrl /\ [][NextUrl]_vars

-----------------------------------------------------------------------------
(* The normalisation alone: a results page with one anchor, whose detail   *)
(* page has one of its three texts drawn from every raw string.            *)

RawAlphabet == {"S", "e", " ", "\t", "\n"}

NormKinds(u) ==
    LET r == Redirected(u) IN
    IF u = U1
    THEN {Page(FALSE, raw, CompanyA, TimeA, r) : raw \in StrUpTo(RawAlphabet, MaxRaw)}
         \cup {Page(FALSE, TitleA, raw, TimeA, r) : raw \in StrUpTo(RawAlphabet, MaxRaw)}
         \cup {Page(FALSE, TitleA, CompanyA, raw, r) : raw \in StrUpTo(RawAlphabet, MaxRaw)}
         \cup {Page(TRUE, TitleA, CompanyA, TimeA, r), Page(FALSE, TitleA, None, TimeA, r)}
    ELSE {Page(FALSE, TitleB, CompanyB, TimeB, r)}

InitNorm ==
    /\ title = <<"q", "a">>
    /\ location = <<"n", " ", "y">>
    /\ data_name = <<"o", "u", "t">>
    /\ anchors = <<U1>>
    /\ pages \in PagesOver([u \in Hrefs |-> NormKinds(u)])
    /\ dedup = FALSE
    /\ Fresh

SpecNorm == InitNorm /\ [][Next]_vars

-----------------------------------------------------------------------------
(* Query decoding, the inverse the seed URL is read back with: the query   *)
(* is split on '&', each field on its first '=', and a name or value is    *)
(* decoded by turning '+' into a space and '%XX' into its character.       *)

RECURSIVE IndexOf(_, _, _)
\* The first position >= i of character c in s, or 0.
IndexOf(s, c, i) ==
    IF i > Len(s) THEN 0 ELSE IF s[i] = c THEN i ELSE IndexOf(s, c, i + 1)

RECURSIVE Split(_, _)
Split(s, c) ==
    LET i == IndexOf(s, c, 1) IN
    IF i = 0 THEN <<s>>
    ELSE <<SubSeq(s, 1, i - 1)>> \o Split(SubSeq(s, i + 1, Len(s)), c)

IsHex(c) == \E n \in 1..16 : HexDigits[n] = c
HexVal(c) == (CHOOSE n \in 1..16 : HexDigits[n] = c) - 1
Chr(n) == IF \E c \in DOMAIN Ord : Ord[c] = n
          THEN CHOOSE c \in DOMAIN Ord : Ord[c] = n ELSE "<?>"

RECURSIVE unquote_plus(_)
unquote_plus(s) ==
    IF s = <<>> THEN <<>>
    ELSE IF s[1] = "+" THEN <<" ">> \o unquote_plus(Tail(s))
    ELSE IF s[1] = "%" /\ Len(s) >= 3 /\ IsHex(s[2]) /\ IsHex(s[3])
         THEN <<Chr(16 * HexVal(s[2]) + HexVal(s[3]))>>
              \o unquote_plus(SubSeq(s, 4, Len(s)))
    ELSE <<s[1]>> \o unquote_plus(Tail(s))

\* The decoded values, in order, of the query parameters of url named key.
QueryValues(url, key) ==
    LET q == IndexOf(url, "?", 1)
        fields == Split(SubSeq(url, q + 1, Len(url)), "&")
        name(f) == LET e == IndexOf(f, "=", 1) IN
                   unquote_plus(IF e = 0 THEN f ELSE SubSeq(f, 1, e - 1))
        value(f) == LET e == IndexOf(f, "=", 1) IN
                    unquote_plus(IF e = 0 THEN <<>> ELSE SubSeq(f, e + 1, Len(f)))
        hits == SelectSeq(fields, LAMBDA f : name(f) = key)
    IN [i \in 1..Len(hits) |-> value(hits[i])]

SearchPrefix ==
    <<"h","t","t","p","s",":","/","/","w","w","w",".","l","i","n","k","e","d",
      "i","n",".","c","o","m","/","j","o","b","s","/","s","e","a","r","c","h",
      "?">>

\* C1: once main has built the seed URL, it starts with
\* https://www.linkedin.com/jobs/search? and has exactly one keywords and one
\* location query parameter, whose decoded values are title and location.
C1_SeedUrlRoundTrip ==
    encoded_url # None =>
        /\ IsPrefix(SearchPrefix, encoded_url)
        /\ QueryValues(encoded_url, K_keywords) = <<title>>
        /\ QueryValues(encoded_url, K_location) = <<location>>

\* A seed URL built from a title of reserved characters and an empty location.
C1_Witness ==
    /\ encoded_url # None
    /\ title = <<"&", "+">>
    /\ location = <<>>

-----------------------------------------------------------------------------
(* The normalisation as the specification words it.                        *)

WhitespaceChars == {" ", "\t", "\n"}

RECURSIVE RunLen(_)
\* Length of the longest prefix of s without a whitespace character.
RunLen(s) ==
    IF s = <<>> \/ s[1] \in WhitespaceChars THEN 0 ELSE 1 + RunLen(Tail(s))

RECURSIVE NonWhitespaceRuns(_)
\* The maximal non-whitespace runs of s, in order.
NonWhitespaceRuns(s) ==
    IF s = <<>> THEN <<>>
    ELSE IF s[1] \in WhitespaceChars THEN NonWhitespaceRuns(Tail(s))
    ELSE LET n == RunLen(s) IN
         <<SubSeq(s, 1, n)>> \o NonWhitespaceRuns(SubSeq(s, n + 1, Len(s)))

ConcatRuns(s) == Join(NonWhitespaceRuns(s), <<>>)

NormalizedFrom(raw, field) ==
    /\ field = ConcatRuns(raw)
    /\ \A i \in 1..Len(field) : field[i] \notin WhitespaceChars
    /\ (\A i \in 1..Len(raw) : raw[i] \in WhitespaceChars) => field = <<>>

\* The record's three scraped fields are the normalised texts of page.
RecordNormalizedFrom(page, rec) ==
    /\ NormalizedFrom(page.job_title, rec[1][2])
    /\ NormalizedFrom(page.company_name, rec[2][2])
    /\ NormalizedFrom(page.time_of_posting, rec[3][2])

\* C2: each of the three normalised fields listing_handler pushes is the
\* concatenation of the maximal non-whitespace runs of its raw text, holds no
\* space, tab or newline, and is empty when the raw text is all whitespace.
C2_FieldsAreConcatenatedRuns ==
    \A k \in DOMAIN invocations :
        \A j \in 1..Len(invocations[k].pushed) :
            RecordNormalizedFrom(PageOf(requests[invocations[k].req].url),
                                 invocations[k].pushed[j])

\* A record was pushed for a page whose title has two runs around mixed
\* whitespace.
C2_Witness ==
    /\ pages[U1].job_title = <<"S", "\n", "e">>
    /\ dataset # <<>>
    /\ dataset[1][1][2] = <<"S", "e">>

-----------------------------------------------------------------------------
(* The crawl.                                                              *)

Invocations == {invocations[k] : k \in DOMAIN invocations}
DefaultInvocations == {inv \in Invocations : inv.handler = "default_handler"}
ListingInvocations == {inv \in Invocations : inv.handler = "listing_handler"}

Range(seq) == {seq[i] : i \in 1..Len(seq)}

\* The bag of the elements of a sequence.
BagOfSeq(seq) ==
    [x \in Range(seq) |-> Cardinality({i \in 1..Len(seq) : seq[i] = x})]

\* C3: a run of default_handler on a results page of N >= 1 anchors submits
\* exactly N requests, the i-th for the i-th anchor's href, each labelled
\* job_listing; repeated hrefs are submitted again, and a queue that does not
\* deduplicate holds them all after the seed.
C3_OneRequestPerAnchor ==
    \A inv \in DefaultInvocations :
        (inv.pc = "done" /\ requests[inv.req].url = encoded_url /\ Len(anchors) >= 1) =>
            /\ Len(inv.added) = Len(anchors)
            /\ \A i \in 1..Len(anchors) :
                  inv.added[i] = [url |-> anchors[i], label |-> "job_listing"]
            /\ ~dedup =>
                  /\ Len(requests) = 1 + Len(anchors)
                  /\ \A i \in 1..Len(anchors) : requests[i + 1].url = anchors[i]

\* default_handler has returned on a results page whose two anchors share
\* one href.
C3_Witness ==
    /\ anchors = <<U1, U1>>
    /\ \E inv \in DefaultInvocations : inv.pc = "done" /\ Len(inv.added) = 2

\* The records pushed for the detail page of href u, recognised by the
\* resolved URL, which differs from page to page.
RecordsOf(u) == SelectSeq(dataset, LAMBDA rec : rec[4][2] = Redirected(u))

\* C4 as stated: a page without its title element yields no record, and no
\* record with a missing or empty title is ever in the result sink.
C4_NoMissingOrEmptyTitle ==
    /\ \A u \in Hrefs : pages[u].job_title = None => RecordsOf(u) = <<>>
    /\ \A i \in 1..Len(dataset) :
          dataset[i][1][2] # None /\ dataset[i][1][2] # <<>>

\* C4 as amended: a page without its title element makes listing_handler fail
\* before it pushes, so it yields no record; every record in the result sink
\* has a title field, which is empty exactly when the page's title element
\* holds nothing but whitespace.
C4_MissingTitleEmitsNothing ==
    /\ \A u \in Hrefs : pages[u].job_title = None => RecordsOf(u) = <<>>
    /\ \A inv \in ListingInvocations :
          PageOf(requests[inv.req].url).job_title = None =>
              /\ inv.pushed = <<>>
              /\ inv.pc \in {"wait_for_load_state", "job_title", "failed"}
    /\ \A u \in Hrefs : \A i \in 1..Len(RecordsOf(u)) :
          LET rec == RecordsOf(u)[i] IN
          /\ rec[1][1] = "title"
          /\ rec[1][2] # None
          /\ rec[1][2] = <<>> <=>
                \A j \in 1..Len(pages[u].job_title) :
                    pages[u].job_title[j] \in WhitespaceChars

\* The request for a page without its title element has failed for good, its
\* last handler invocation having raised at the title locator.
C4_Witness ==
    \E inv \in ListingInvocations :
        /\ PageOf(requests[inv.req].url).job_title = None
        /\ inv.pc = "failed"
        /\ inv.tries["job_title"] = 1
        /\ requests[inv.req].state = "failed"

\* C5: on a results page without anchors default_handler submits no request,
\* emits no data and does not fail; the seed request ends handled and no
\* listing_handler is ever invoked.
C5_NoAnchorsNoRequests ==
    anchors = <<>> =>
        /\ Len(requests) <= 1
        /\ dataset = <<>>
        /\ \A inv \in Invocations :
              /\ inv.handler = "default_handler"
              /\ inv.pc # "failed"
              /\ inv.added = <<>>
              /\ inv.pushed = <<>>
        /\ \A i \in 1..Len(requests) :
              /\ requests[i].state # "failed"
              /\ requests[i].retry_count = 0
        /\ mainPc \in {"export", "done"} => requests[1].state = "handled"

\* The run over a results page without anchors has ended.
C5_Witness ==
    /\ anchors = <<>>
    /\ mainPc = "done"
    /\ \E inv \in DefaultInvocations : inv.pc = "done"

ReadSteps == {"wait_for_load_state", "job_title", "company_name", "time_of_posting"}

\* The statements of listing_handler that raise on the page.
RaisesAt(page) ==
    {s \in {"job_title", "company_name", "time_of_posting"} : page[s] = None}

RECURSIVE PushedBy(_)
\* The number of records the invocations of the requests in K have pushed.
PushedBy(K) ==
    IF K = {} THEN 0
    ELSE LET k == CHOOSE x \in K : TRUE IN
         Len(invocations[k].pushed) + PushedBy(K \ {k})

\* C6: a listing_handler invocation whose load wait timed out or one of whose
\* locators did not resolve has ended in failure and has pushed nothing; a
\* page on which a locator does not resolve never gets a record; every record
\* in the result sink was pushed by an invocation that read all three texts;
\* and no invocation attempts the load wait or a locator read twice.
C6_FailureEmitsNothingAndNoRetry ==
    /\ \A inv \in ListingInvocations :
          LET page == PageOf(requests[inv.req].url) IN
          /\ \A s \in ReadSteps : inv.tries[s] <= 1
          /\ inv.pc = "failed" => inv.pushed = <<>>
          /\ (\E s \in RaisesAt(page) : inv.tries[s] = 1) => inv.pc = "failed"
          /\ inv.pushed # <<>> =>
                /\ Len(inv.pushed) = 1
                /\ RaisesAt(page) = {}
                /\ \A s \in ReadSteps : inv.tries[s] = 1
                /\ \A j \in 1..4 : inv.pushed[1][j][2] # None
    /\ \A u \in Hrefs : RaisesAt(pages[u]) # {} => RecordsOf(u) = <<>>
    /\ Len(dataset) = PushedBy(DOMAIN invocations)

\* An invocation has failed at the company locator after reading the title,
\* and another has failed at the load wait.
C6_Witness ==
    /\ \E inv \in ListingInvocations :
          /\ inv.pc = "failed"
          /\ inv.job_title # None
          /\ inv.tries["company_name"] = 1
    /\ \E inv \in ListingInvocations :
          /\ inv.pc = "failed"
          /\ inv.tries["wait_for_load_state"] = 1
          /\ inv.tries["job_title"] = 0

\* The rows expected of the two complete pages: their texts with the
\* whitespace taken out, and the URL each navigation ended on.
RowA == << <<"S", "E">>, <<"A", "c">>, <<"3", "d">>, <<"j", "1", "r">> >>
RowB == << <<"D", "S">>, <<"B", "b">>, <<"1", "w">>, <<"j", "2">> >>

\* C7: a run over a results page whose two anchors point at the two complete
\* detail pages ends with one CSV file of exactly two rows, one per page,
\* holding the stripped title, company name and posting time and the resolved
\* URL of the page, in either order.
C7_TwoPagesTwoRows ==
    ( /\ mainPc = "done"
      /\ anchors \in {<<U1, U2>>, <<U2, U1>>}
      /\ pages[U1] = Page(FALSE, TitleA, CompanyA, TimeA, <<"j", "1", "r">>)
      /\ pages[U2] = Page(FALSE, TitleB, CompanyB, TimeB, <<"j", "2">>) ) =>
        /\ Len(files) = 1
        /\ files[1].rows \in {<<RowA, RowB>>, <<RowB, RowA>>}

\* The run over <<U1, U2>> has ended with the second page's row first.
C7_Witness ==
    /\ mainPc = "done"
    /\ anchors = <<U1, U2>>
    /\ Len(files) = 1
    /\ files[1].rows = <<RowB, RowA>>

Columns == <<"title", "Company name", "Time of posting", "url">>

\* C8: at most one file is ever written; it is written only once the run is
\* over (main is past crawler.run and no request is pending or being
\* handled), it is named {data_name}.csv, and its rows are exactly the
\* records of the result sink, in order, each with the four columns title,
\* Company name, Time of posting, url; once main is done the file exists.
C8_ExportOnceAfterRun ==
    /\ Len(files) <= 1
    /\ mainPc = "done" <=> Len(files) = 1
    /\ mainPc \in {"export", "done"} =>
          \A i \in 1..Len(requests) : requests[i].state \notin {"pending", "running"}
    /\ files # <<>> =>
          /\ files[1].name = <<"o", "u", "t", ".", "c", "s", "v">>
          /\ Len(files[1].rows) = Len(dataset)
          /\ \A i \in 1..Len(dataset) :
                /\ Len(files[1].rows[i]) = 4
                /\ \A j \in 1..4 :
                      /\ dataset[i][j][1] = Columns[j]
                      /\ files[1].rows[i][j] = dataset[i][j][2]
          /\ dataset # <<>> => files[1].header = Columns

\* The file has been written after a run in which one request was extracted
\* and another failed: it holds the one row.
C8_Witness ==
    /\ mainPc = "done"
    /\ Len(files) = 1
    /\ Len(files[1].rows) = 1
    /\ \E i \in 1..Len(requests) : requests[i].state = "failed"

\* The record the specification expects of the detail page of href u.
ExpectedRecord(u) ==
    << <<"title", ConcatRuns(pages[u].job_title)>>,
       <<"Company name", ConcatRuns(pages[u].company_name)>>,
       <<"Time of posting", ConcatRuns(pages[u].time_of_posting)>>,
       <<"url", Redirected(u)>> >>

\* The job_listing requests in state st, as the sequence of their hrefs.
ListingHrefs(states) ==
    LET sel == SelectSeq(requests, LAMBDA r : r.label = "job_listing" /\ r.state \in states)
    IN [i \in 1..Len(sel) |-> sel[i].url]

\* C9: however the handlers interleave, the records emitted are, as a
\* multiset, one record per request whose extraction has succeeded, built
\* from that request's own page texts and resolved URL; and when the run is
\* over and no load wait could time out, they are one record per queued
\* request whose page has all three elements.
C9_RecordsIndependentOfInterleaving ==
    /\ BagOfSeq(dataset) =
          BagOfSeq([i \in 1..Len(ListingHrefs({"handled"})) |->
                      ExpectedRecord(ListingHrefs({"handled"})[i])])
    /\ (mainPc \in {"export", "done"} /\ \A u \in Hrefs : ~pages[u].slow) =>
          LET all == ListingHrefs({"pending", "running", "handled", "failed"})
              good == SelectSeq(all, LAMBDA u : RaisesAt(pages[u]) = {})
          IN BagOfSeq(dataset) =
                BagOfSeq([i \in 1..Len(good) |-> ExpectedRecord(good[i])])

\* Two extractions are in flight between their locator reads while a third
\* request's record is already emitted out of queue order.
C9_Witness ==
    /\ Len(requests) = 3
    /\ requests[2].url # requests[3].url
    /\ requests[2].state = "running"
    /\ invocations[2].pc = "company_name"
    /\ requests[3].state = "handled"
    /\ Len(dataset) = 1

\* The safety part of C10.
C10_Depth ==
    /\ Len(requests) <= 1 + Len(anchors)
    /\ Len(dataset) <= Len(anchors)
    /\ \A i \in 1..Len(requests) :
          requests[i].label = (IF i = 1 THEN NoLabel ELSE "job_listing")
    /\ \A inv \in Invocations :
          /\ inv.handler = "default_handler" <=> inv.req = 1
          /\ inv.handler = "default_handler" => inv.pushed = <<>>
          /\ inv.handler = "listing_handler" => inv.added = <<>> /\ inv.hrefs = <<>>

\* C10: only the unlabelled seed request reaches default_handler, which
\* enqueues only job_listing requests and emits nothing; listing_handler
\* handles exactly the job_listing requests and enqueues nothing; so at most
\* 1 + N requests are queued and at most N records emitted, and under fair
\* scheduling the queue empties and main ends.
C10_DepthTwoAndTerminates ==
    /\ []C10_Depth
    /\ <>(mainPc = "done" /\ CrawlerIdle)

\* The run has ended with 1 + MaxAnchors requests queued and all handled.
C10_Witness ==
    /\ mainPc = "done"
    /\ Len(requests) = 1 + Len(anchors)
    /\ Len(anchors) = 2
    /\ Len(dataset) = 2

=============================================================================
